---------------------------- MODULE Spec2Model ----------------------------
(***************************************************************************)
(* Dataset splitter (script/tools/make_normals_dataset.py) and leakage     *)
(* verifier (script/tools/verify_split_leakage.py).                        *)
(*                                                                         *)
(* Strings are sequences of one-character strings, so that basename,       *)
(* rsplit, splitext, with_suffix, strip and split are computed character   *)
(* by character as the Python code computes them.                          *)
(***************************************************************************)
EXTENDS Integers, Sequences, FiniteSets, TLC

VARIABLES
    inputDir,     \* <dataset_root>/<input_subdir>: [exists, files (relative paths)]
    targetDir,    \* <dataset_root>/<target_subdir>: [exists, files]
    splitFiles,   \* output_split_dir: file name -> [exists, lines]
    last,         \* what the latest run of the splitter's main() computed
    nRuns,        \* number of splitter runs so far
    budget,       \* number of splitter runs the behaviour may make
    repeated,     \* the latest run succeeded with the arguments of a successful run before it
    verify,       \* what the latest run of the verifier's main() computed
    nm,           \* name-derivation scenario: [pc, rel, stem, ident]
    vs            \* visualization scenario: [pc, val_pairs, rng, vis_pairs]

vars == <<inputDir, targetDir, splitFiles, last, nRuns, budget, repeated,
          verify, nm, vs>>

-----------------------------------------------------------------------------
(* Bounds of the model *)

\* longest relative path of the name-derivation scenario
MaxLen == 5
\* most files per directory of the dataset tree
MaxFiles == 3
\* splitter runs on one tree when the runs are repeated
MaxRuns == 2
\* lines per hand-made split file of the verifier scenario
MaxLines == 2
\* the validation list of the visualization scenario has up to VisMax + VisSlack pairs
VisSlack == 2

-----------------------------------------------------------------------------
(* Python strings *)

\* code point order of the characters used (str comparison in sorted())
Ord(c) ==
    CASE c = " " -> 32 [] c = "." -> 46 [] c = "/" -> 47
      [] c = "0" -> 48 [] c = "1" -> 49 [] c = "2" -> 50 [] c = "3" -> 51
      [] c = "4" -> 52 [] c = "5" -> 53 [] c = "9" -> 57
      [] c = "G" -> 71 [] c = "N" -> 78 [] c = "P" -> 80
      [] c = "_" -> 95
      [] c = "a" -> 97 [] c = "b" -> 98 [] c = "c" -> 99 [] c = "d" -> 100
      [] c = "e" -> 101 [] c = "g" -> 103 [] c = "i" -> 105 [] c = "j" -> 106
      [] c = "n" -> 110 [] c = "p" -> 112 [] c = "r" -> 114 [] c = "t" -> 116
      [] c = "u" -> 117 [] c = "x" -> 120 [] c = "y" -> 121

\* str.lower() on one character
LowerChar(c) ==
    CASE c = "G" -> "g" [] c = "N" -> "n" [] c = "P" -> "p" [] OTHER -> c

Lower(s) == [i \in 1..Len(s) |-> LowerChar(s[i])]

RECURSIVE StrLess(_, _)
\* a < b for Python str
StrLess(a, b) ==
    IF a = <<>> THEN b # <<>>
    ELSE IF b = <<>> THEN FALSE
    ELSE IF Head(a) = Head(b) THEN StrLess(Tail(a), Tail(b))
    ELSE Ord(Head(a)) < Ord(Head(b))

\* sorted(S) for a set of strings
SortedStrs(S) ==
    LET n == Cardinality(S)
        pos(x) == 1 + Cardinality({y \in S : StrLess(y, x)})
    IN  [i \in 1..n |-> CHOOSE x \in S : pos(x) = i]

\* s.rfind(c), 1-based; 0 when c does not occur
RFind(s, c) ==
    LET I == {i \in 1..Len(s) : s[i] = c}
    IN  IF I = {} THEN 0 ELSE CHOOSE i \in I : \A j \in I : j <= i

EndsWith(s, suf) ==
    /\ Len(suf) <= Len(s)
    /\ SubSeq(s, Len(s) - Len(suf) + 1, Len(s)) = suf

\* os.path.basename on a posix path
Basename(p) == SubSeq(p, RFind(p, "/") + 1, Len(p))

\* os.path.join(a, b) for a relative b, then .replace(os.sep, "/")
PathJoin(a, b) == a \o <<"/">> \o b

\* pathlib.PurePath.suffix of a file name
PathSuffix(name) ==
    LET i == RFind(name, ".")
    IN  IF 1 < i /\ i < Len(name) THEN SubSeq(name, i, Len(name)) ELSE <<>>

\* pathlib.Path(rel).with_suffix("").as_posix()
WithoutSuffix(rel) ==
    SubSeq(rel, 1, Len(rel) - Len(PathSuffix(Basename(rel))))

\* os.path.splitext(name)[0] of a file name: leading dots belong to the root
SplitextRoot(name) ==
    LET d == RFind(name, ".")
    IN  IF d > 0 /\ \E k \in 1..(d - 1) : name[k] # "."
        THEN SubSeq(name, 1, d - 1)
        ELSE name

\* name.rsplit('_', 1)
RSplitUnderscore(name) ==
    LET u == RFind(name, "_")
    IN  IF u = 0 THEN <<name>>
        ELSE <<SubSeq(name, 1, u - 1), SubSeq(name, u + 1, Len(name))>>

-----------------------------------------------------------------------------
(* make_normals_dataset.py: names *)

\* faulty variant: it keeps the directory part of the stem
extract_sample_name_whole_stem(stem) ==
    LET parts == RSplitUnderscore(stem)
    IN  IF Len(parts) = 2 THEN parts[1] ELSE stem

extract_sample_name(stem) ==
    LET basename == Basename(stem)
        parts == RSplitUnderscore(basename)
    IN  IF Len(parts) = 2 THEN parts[1] ELSE basename


-----------------------------------------------------------------------------
(* Python's random module.  The Mersenne Twister is replaced by a small     *)
(* linear congruential generator: what matters to the splitter is that the  *)
(* generator is a deterministic function of the seed and of the number of   *)
(* draws made since seeding.                                                *)

\* random.seed(seed): the generator state
RngSeed(seed) == (seed * 11 + 5) % 256

RngNext(rng) == (rng * 13 + 7) % 256

\* Random._randbelow(n): the value drawn; the state afterwards is RngNext(rng)
RandBelow(rng, n) == (RngNext(rng) \div 4) % n

Swap(x, i, j) == [x EXCEPT ![i] = x[j], ![j] = x[i]]

RECURSIVE ShuffleFrom(_, _, _)
\* the loop of random.shuffle, i = len(x) - 1 down to 1 (here 1-based: p = i + 1)
ShuffleFrom(x, p, rng) ==
    IF p < 2 THEN [list |-> x, rng |-> rng]
    ELSE ShuffleFrom(Swap(x, p, RandBelow(rng, p) + 1), p - 1, RngNext(rng))

\* random.shuffle(x): the shuffled list and the generator state afterwards
Shuffle(x, rng) == ShuffleFrom(x, Len(x), rng)

RECURSIVE Pow4AtLeast(_, _)
\* 4 ** ceil(log(m, 4)): the least power of 4 that is >= m
Pow4AtLeast(m, p) == IF p >= m THEN p ELSE Pow4AtLeast(m, 4 * p)

\* random.sample's setsize for k selections
SampleSetSize(k) == IF k > 5 THEN 21 + Pow4AtLeast(3 * k, 1) ELSE 21

RECURSIVE SamplePool(_, _, _, _)
\* random.sample, pool branch: i-th selection (0-based i) out of pool[0 : n - i]
SamplePool(pool, k, i, rng) ==
    IF i >= k THEN <<>>
    ELSE LET n == Len(pool)
             j == RandBelow(rng, n - i) + 1
         IN  <<pool[j]>> \o
             SamplePool([pool EXCEPT ![j] = pool[n - i]], k, i + 1, RngNext(rng))

RECURSIVE RedrawSelected(_, _, _)
\* random.sample, set branch: redraw while the index is already selected
RedrawSelected(selected, n, rng) ==
    IF RandBelow(rng, n) + 1 \in selected
    THEN RedrawSelected(selected, n, RngNext(rng))
    ELSE [j |-> RandBelow(rng, n) + 1, rng |-> RngNext(rng)]

RECURSIVE SampleSet(_, _, _, _, _)
SampleSet(population, k, i, selected, rng) ==
    IF i >= k THEN <<>>
    ELSE LET d == RedrawSelected(selected, Len(population), rng)
         IN  <<population[d.j]>> \o
             SampleSet(population, k, i + 1, selected \cup {d.j}, d.rng)

\* faulty variant: it draws every element from the whole population (with replacement)
Sample_with_replacement(population, k, rng) ==
    IF k = 0 THEN <<>>
    ELSE [i \in 1..k |-> population[RandBelow(rng, Len(population)) + 1]]

\* random.sample(population, k)
Sample(population, k, rng) ==
    IF Len(population) <= SampleSetSize(k)
    THEN SamplePool(population, k, 0, rng)
    ELSE SampleSet(population, k, 0, {}, rng)

-----------------------------------------------------------------------------
(* make_normals_dataset.py: the splitter *)

\* --input_subdir and --target_subdir (defaults) and the two extension lists
input_subdir == <<"i", "n", "p", "u", "t">>
target_subdir == <<"t", "a", "r", "g", "e", "t", "_", "n", "p", "y">>
rgb_exts == { <<".", "p", "n", "g">>, <<".", "j", "p", "g">>,
              <<".", "j", "p", "e", "g">>, <<".", "b", "m", "p">> }
normal_exts == { <<".", "n", "p", "y">> }

\* faulty variant: it returns the files in the order of the directory walk
list_image_files_unsorted(walk, exts) ==
    LET keep(f) == \E e \in exts : EndsWith(Lower(Basename(f)), e)
    IN  SelectSeq(walk, keep)

\* walk: the matching files' paths in the order os.walk yields them
list_image_files(walk, exts) ==
    LET keep(f) == \E e \in exts : EndsWith(Lower(Basename(f)), e)
    IN  SortSeq(SelectSeq(walk, keep), StrLess)

\* mapping[stem] = rel_path, a later file overwriting an earlier one
build_stem_to_relpath_map(files) ==
    LET stem(i) == WithoutSuffix(files[i])
    IN  [s \in {stem(i) : i \in 1..Len(files)} |->
            files[CHOOSE i \in 1..Len(files) :
                    /\ stem(i) = s
                    /\ \A j \in 1..Len(files) : stem(j) = s => j <= i]]

\* write_split_file: one line "<rgb_rel> <normal_rel>" per pair
PairLine(pair) == pair[1] \o <<" ">> \o pair[2]

write_split_file(pairs) ==
    [exists |-> TRUE, lines |-> [i \in 1..Len(pairs) |-> PairLine(pairs[i])]]

\* A ratio is a fraction <<numerator, denominator>> with a positive denominator.
\* val_ratio < 0 or test_ratio < 0 or (val_ratio + test_ratio) >= 1.0
RatiosRejected(v, t) ==
    v[1] < 0 \/ t[1] < 0 \/ v[1] * t[2] + t[1] * v[2] >= v[2] * t[2]

\* int(n_samples * ratio) for a ratio that is not negative
RatioCount(n, ratio) == (n * ratio[1]) \div ratio[2]

\* sample_groups: sample name -> its pairs, in the order of common_stems
SampleGroups(common_stems, rgb_map, normal_map) ==
    LET pair(stem) == << PathJoin(input_subdir, rgb_map[stem]),
                         PathJoin(target_subdir, normal_map[stem]) >>
        names == {extract_sample_name(common_stems[i]) : i \in 1..Len(common_stems)}
        of(name) == SelectSeq(common_stems, LAMBDA s : extract_sample_name(s) = name)
    IN  [name \in names |-> [i \in 1..Len(of(name)) |-> pair(of(name)[i])]]

\* faulty variant: it takes val from the start of the shuffled names, like test
SliceNames_val_from_start(sample_names, n_test, n_val) ==
    [test  |-> SubSeq(sample_names, 1, n_test),
     val   |-> SubSeq(sample_names, 1, n_val),
     train |-> SubSeq(sample_names, n_test + n_val + 1, Len(sample_names))]

\* faulty variant: it starts train one name late
SliceNames_train_late(sample_names, n_test, n_val) ==
    [test  |-> SubSeq(sample_names, 1, n_test),
     val   |-> SubSeq(sample_names, n_test + 1, n_test + n_val),
     train |-> SubSeq(sample_names, n_test + n_val + 2, Len(sample_names))]

\* faulty variant: it slices val first, then test
SliceNames_val_first(sample_names, n_test, n_val) ==
    [val   |-> SubSeq(sample_names, 1, n_val),
     test  |-> SubSeq(sample_names, n_val + 1, n_val + n_test),
     train |-> SubSeq(sample_names, n_test + n_val + 1, Len(sample_names))]

\* test_sample_names, val_sample_names, train_sample_names
SliceNames(sample_names, n_test, n_val) ==
    [test  |-> SubSeq(sample_names, 1, n_test),
     val   |-> SubSeq(sample_names, n_test + 1, n_test + n_val),
     train |-> SubSeq(sample_names, n_test + n_val + 1, Len(sample_names))]

RECURSIVE CollectPairs(_, _)
\* pairs = []; for sample_name in names: pairs.extend(sample_groups[sample_name])
CollectPairs(names, sample_groups) ==
    IF names = <<>> THEN <<>>
    ELSE sample_groups[Head(names)] \o CollectPairs(Tail(names), sample_groups)

Min(a, b) == IF a <= b THEN a ELSE b

\* the size of the visualization subset
VisMax == 20

\* n_vis = min(20, len(val_pairs))
NVis(val_pairs) == Min(VisMax, Len(val_pairs))

\* vis_pairs; the empty list when n_vis = 0 (then vis.txt is not written)
VisPairs(val_pairs, rng) ==
    IF NVis(val_pairs) > 0 THEN Sample(val_pairs, NVis(val_pairs), rng) ELSE <<>>

-----------------------------------------------------------------------------
(* State of a run of main() *)

NotRun == 0 - 1

SplitNames == {"train", "val", "test", "vis"}

NoFile == [exists |-> FALSE, lines |-> <<>>]

NoRun ==
    [status |-> NotRun, error |-> "", seed |-> 0, v |-> <<0, 1>>, t |-> <<0, 1>>,
     common_stems |-> <<>>, sample_names |-> <<>>,
     n_test_samples |-> 0, n_val_samples |-> 0,
     test_sample_names |-> <<>>, val_sample_names |-> <<>>,
     train_sample_names |-> <<>>,
     test_pairs |-> <<>>, val_pairs |-> <<>>, train_pairs |-> <<>>,
     vis_pairs |-> <<>>]

\* sys.exit(1) of lines 117-140 after the error message: nothing has been computed
FailedRun(error) == [NoRun EXCEPT !.status = 1, !.error = error]

\* lines 142-190 for the sorted lists of files of the two directories
SplitRun(seed, v, t, rgb_files, normal_files) ==
    LET rgb_map == build_stem_to_relpath_map(rgb_files)
        normal_map == build_stem_to_relpath_map(normal_files)
        common_stems == SortedStrs(DOMAIN rgb_map \cap DOMAIN normal_map)
    IN  IF Len(common_stems) = 0 THEN FailedRun("No matching pairs found")
        ELSE
        LET sample_groups == SampleGroups(common_stems, rgb_map, normal_map)
            shuffled == Shuffle(SortedStrs(DOMAIN sample_groups), RngSeed(seed))
            sample_names == shuffled.list
            n_samples == Len(sample_names)
            n_test_samples == RatioCount(n_samples, t)
            n_val_samples == RatioCount(n_samples, v)
            slices == SliceNames(sample_names, n_test_samples, n_val_samples)
            val_pairs == CollectPairs(slices.val, sample_groups)
        IN  [status |-> 0, error |-> "", seed |-> seed, v |-> v, t |-> t,
             common_stems |-> common_stems, sample_names |-> sample_names,
             n_test_samples |-> n_test_samples, n_val_samples |-> n_val_samples,
             test_sample_names |-> slices.test,
             val_sample_names |-> slices.val,
             train_sample_names |-> slices.train,
             test_pairs |-> CollectPairs(slices.test, sample_groups),
             val_pairs |-> val_pairs,
             train_pairs |-> CollectPairs(slices.train, sample_groups),
             vis_pairs |-> VisPairs(val_pairs, shuffled.rng)]

\* faulty variant: it writes train.txt and val.txt before it looks at the exit status
WriteSplits_before_exit(run, files) ==
    [f \in SplitNames |->
        CASE f = "train" -> write_split_file(run.train_pairs)
          [] f = "val"   -> write_split_file(run.val_pairs)
          [] f = "test"  -> IF Len(run.test_pairs) > 0
                            THEN write_split_file(run.test_pairs) ELSE files[f]
          [] f = "vis"   -> IF Len(run.vis_pairs) > 0
                            THEN write_split_file(run.vis_pairs) ELSE files[f]]

\* faulty variant: it removes a test.txt and a vis.txt it does not write
WriteSplits_removing(run, files) ==
    IF run.status # 0 THEN files
    ELSE [f \in SplitNames |->
        CASE f = "train" -> write_split_file(run.train_pairs)
          [] f = "val"   -> write_split_file(run.val_pairs)
          [] f = "test"  -> IF Len(run.test_pairs) > 0
                            THEN write_split_file(run.test_pairs) ELSE NoFile
          [] f = "vis"   -> IF Len(run.vis_pairs) > 0
                            THEN write_split_file(run.vis_pairs) ELSE NoFile]

\* the output directory after the run: lines 181-190; an exit leaves it alone
WriteSplits(run, files) ==
    IF run.status # 0 THEN files
    ELSE [f \in SplitNames |->
        CASE f = "train" -> write_split_file(run.train_pairs)
          [] f = "val"   -> write_split_file(run.val_pairs)
          [] f = "test"  -> IF Len(run.test_pairs) > 0
                            THEN write_split_file(run.test_pairs) ELSE files[f]
          [] f = "vis"   -> IF Len(run.vis_pairs) > 0
                            THEN write_split_file(run.vis_pairs) ELSE files[f]]

-----------------------------------------------------------------------------
(* verify_split_leakage.py *)

\* str.strip() for the blank
RECURSIVE LStrip(_)
LStrip(s) == IF s # <<>> /\ Head(s) = " " THEN LStrip(Tail(s)) ELSE s

RECURSIVE RStrip(_)
RStrip(s) ==
    IF s # <<>> /\ s[Len(s)] = " " THEN RStrip(SubSeq(s, 1, Len(s) - 1)) ELSE s

Strip(s) == LStrip(RStrip(s))

\* line.split()[0] of a stripped, non-empty line: up to the first blank
FirstField(line) ==
    LET B == {i \in 1..Len(line) : line[i] = " "}
    IN  IF B = {} THEN line
        ELSE SubSeq(line, 1, (CHOOSE i \in B : \A j \in B : i <= j) - 1)

\* read_split_file: the first field of every non-blank line; [] for no file
read_split_file(file) ==
    IF ~file.exists THEN <<>>
    ELSE LET stripped == [i \in 1..Len(file.lines) |-> Strip(file.lines[i])]
             nonblank == SelectSeq(stripped, LAMBDA l : l # <<>>)
         IN  [i \in 1..Len(nonblank) |-> FirstField(nonblank[i])]

\* the verifier's own extract_sample_name(file_path)
verifier_extract_sample_name(file_path) ==
    LET name_without_ext == SplitextRoot(Basename(file_path))
        parts == RSplitUnderscore(name_without_ext)
    IN  IF Len(parts) = 2 THEN parts[1] ELSE name_without_ext

NamesOf(samples) ==
    {verifier_extract_sample_name(samples[i]) : i \in 1..Len(samples)}

NoVerify ==
    [status |-> NotRun, train_names |-> {}, val_names |-> {}, test_names |-> {},
     train_val_overlap |-> {}, train_test_overlap |-> {}, val_test_overlap |-> {}]

\* faulty variant: it forgets that a val/test overlap is leakage
LeakageFound_without_val_test(train_val_overlap, train_test_overlap, val_test_overlap) ==
    train_val_overlap # {} \/ train_test_overlap # {}

\* leakage_found after the three checks
LeakageFound(train_val_overlap, train_test_overlap, val_test_overlap) ==
    train_val_overlap # {} \/ train_test_overlap # {} \/ val_test_overlap # {}

\* main() of the verifier; status is the process's exit status.  With no
\* sample at all, max() of the empty sample_counts raises and the status is 1.
VerifyMain(files) ==
    LET train_samples == read_split_file(files["train"])
        val_samples == read_split_file(files["val"])
        test_samples == read_split_file(files["test"])
        train_names == NamesOf(train_samples)
        val_names == NamesOf(val_samples)
        test_names == NamesOf(test_samples)
        train_val_overlap == train_names \cap val_names
        train_test_overlap == train_names \cap test_names
        val_test_overlap == val_names \cap test_names
    IN  [status |->
            IF LeakageFound(train_val_overlap, train_test_overlap, val_test_overlap)
            THEN 1
            ELSE IF Len(train_samples \o val_samples \o test_samples) = 0 THEN 1
            ELSE 0,
         train_names |-> train_names, val_names |-> val_names,
         test_names |-> test_names,
         train_val_overlap |-> train_val_overlap,
         train_test_overlap |-> train_test_overlap,
         val_test_overlap |-> val_test_overlap]

-----------------------------------------------------------------------------
(* The dataset trees and the arguments the runs are checked on *)

\* files of the input tree
InputFiles ==
    { <<"a", "_", "1", ".", "p", "n", "g">>,
      <<"a", "_", "2", ".", "p", "n", "g">>,
      <<"b", "_", "1", ".", "p", "n", "g">>,
      <<"d", "/", "a", "_", "3", ".", "p", "n", "g">>,
      <<"a", "_", "1", ".", "j", "p", "g">>,
      <<"b", " ", "2", ".", "P", "N", "G">>,
      <<"n", ".", "t", "x", "t">> }

\* files of the target tree
TargetFiles ==
    { <<"a", "_", "1", ".", "n", "p", "y">>,
      <<"a", "_", "2", ".", "n", "p", "y">>,
      <<"b", "_", "1", ".", "n", "p", "y">>,
      <<"d", "/", "a", "_", "3", ".", "n", "p", "y">>,
      <<"b", " ", "2", ".", "n", "p", "y">> }

Trees(U) ==
    {[exists |-> FALSE, files |-> {}]} \cup
    {[exists |-> TRUE, files |-> S] : S \in {T \in SUBSET U : Cardinality(T) <= MaxFiles}}

\* values of --seed
Seeds == {0, 1}

\* values of --val_ratio and --test_ratio: -1/3, 0, 1/3, 1/2, 1
Ratios == { <<0 - 1, 3>>, <<0, 1>>, <<1, 3>>, <<1, 2>>, <<1, 1>> }

\* the target tree that holds one .npy file per stem of the input files
Mirror(files) == {WithoutSuffix(f) \o <<".", "n", "p", "y">> : f \in files}

\* os.walk(base_dir), top down: the files of the tree in the order they are
\* met, a directory's own files before those of its subdirectories, and in
\* an order the file system chooses within a directory
Walks(S) ==
    LET n == Cardinality(S)
    IN  {w \in [1..n -> S] :
            /\ \A i, j \in 1..n : i # j => w[i] # w[j]
            /\ \A i, j \in 1..n :
                   (i < j /\ RFind(w[i], "/") > 0) => RFind(w[j], "/") > 0}

-----------------------------------------------------------------------------
(* Scenario values of the other specifications *)

NameChars == {"a", "1", "_", "/", "."}

\* what os.path.relpath can return for a file below rel_root
IsRelPath(p) ==
    /\ p[1] # "/" /\ p[Len(p)] # "/"
    /\ \A i \in 1..(Len(p) - 1) : ~(p[i] = "/" /\ p[i + 1] = "/")
    /\ \A i \in 1..Len(p) :
           (p[i] = "." /\ (i = 1 \/ p[i - 1] = "/"))
               => (i < Len(p) /\ p[i + 1] \notin {"/", "."})

\* the stems named in the grouping example
ExampleStems ==
    { <<"3", "1", "9", "2", "_", "0", "1", "0">>,
      <<"3", "1", "9", "2", "_", "0", "0", "5">>,
      <<"4", "2", "0", "1">> }

NamePaths ==
    ExampleStems \cup
    UNION {{p \in [1..n -> NameChars] : IsRelPath(p)} : n \in 1..MaxLen}

NoName == [pc |-> "idle", rel |-> <<>>, stem |-> <<>>, ident |-> <<>>]

\* hand-made lines of split files
VerifyLines ==
    { <<"d", "/", "a", "_", "1", ".", "p", "n", "g", " ", "t">>,
      <<" ", "a", "_", "2", ".", "p", "n", "g">>,
      <<"b", "_", "1", ".", "p", "n", "g">>,
      <<" ">> }

SplitFileContents ==
    {NoFile} \cup
    {[exists |-> TRUE, lines |-> l] :
        l \in UNION {[1..n -> VerifyLines] : n \in 0..MaxLines}}

NoVis == [pc |-> "idle", val_pairs |-> <<>>, rng |-> 0, vis_pairs |-> <<>>]

\* an output directory that earlier use has left four split files in
OldPair ==
    << PathJoin(input_subdir, <<"a", "_", "9", ".", "p", "n", "g">>),
       PathJoin(target_subdir, <<"a", "_", "9", ".", "n", "p", "y">>) >>

OldSplits == [f \in SplitNames |-> write_split_file(<<OldPair>>)]

NoSplits == [f \in SplitNames |-> NoFile]

-----------------------------------------------------------------------------
(* The splitter and the verifier run on a dataset tree *)

Init ==
    /\ inputDir \in Trees(InputFiles)
    /\ targetDir \in Trees(TargetFiles)
    /\ splitFiles \in {NoSplits, OldSplits}
    /\ last = NoRun
    /\ nRuns = 0
    /\ budget = 1
    /\ repeated = FALSE
    /\ verify = NoVerify
    /\ nm = NoName
    /\ vs = NoVis

\* rgb_files and normal_files (lines 131-132) for every order of the two walks
Listings ==
    { [rgb_files |-> list_image_files(wi, rgb_exts),
       normal_files |-> list_image_files(wt, normal_exts)] :
         wi \in Walks(inputDir.files), wt \in Walks(targetDir.files) }

\* main(), lines 113-190, when the two walks list the files as in listing
SplitterMain(seed, v, t, listing) ==
    IF ~inputDir.exists THEN FailedRun("Input directory does not exist")
    ELSE IF ~targetDir.exists THEN FailedRun("Target directory does not exist")
    ELSE IF RatiosRejected(v, t) THEN FailedRun("val_ratio and test_ratio")
    ELSE SplitRun(seed, v, t, listing.rgb_files, listing.normal_files)

\* one run of make_normals_dataset.py
RunSplitter ==
    /\ nRuns < budget
    /\ \E run \in { SplitterMain(seed, v, t, listing) :
                       seed \in Seeds, v \in Ratios, t \in Ratios,
                       listing \in Listings } :
         /\ last' = run
         /\ splitFiles' = WriteSplits(run, splitFiles)
         /\ repeated' = /\ last.status = 0 /\ run.status = 0
                         /\ <<run.seed, run.v, run.t>> = <<last.seed, last.v, last.t>>
    /\ nRuns' = nRuns + 1
    /\ verify' = NoVerify
    /\ UNCHANGED <<inputDir, targetDir, budget, nm, vs>>

\* one run of verify_split_leakage.py on the output directory
RunVerifier ==
    /\ verify' = VerifyMain(splitFiles)
    /\ UNCHANGED <<inputDir, targetDir, splitFiles, last, nRuns, budget, repeated, nm, vs>>

Next == RunSplitter \/ RunVerifier

Spec == Init /\ [][Next]_vars

-----------------------------------------------------------------------------
(* Repeated runs of the splitter on one tree, into one output directory *)

InitRerun ==
    /\ inputDir \in {tree \in Trees(InputFiles) : tree.exists}
    /\ targetDir = [exists |-> TRUE, files |-> Mirror(inputDir.files)]
    /\ splitFiles = NoSplits
    /\ last = NoRun
    /\ nRuns = 0
    /\ budget = MaxRuns
    /\ repeated = FALSE
    /\ verify = NoVerify
    /\ nm = NoName
    /\ vs = NoVis

NextRerun == RunSplitter

SpecRerun == InitRerun /\ [][NextRerun]_vars

-----------------------------------------------------------------------------
(* The verifier on hand-made split files *)

InitVerify ==
    /\ inputDir = [exists |-> FALSE, files |-> {}]
    /\ targetDir = [exists |-> FALSE, files |-> {}]
    /\ splitFiles \in {F \in [SplitNames -> SplitFileContents] : F["vis"] = NoFile}
    /\ last = NoRun
    /\ nRuns = 0
    /\ budget = 1
    /\ repeated = FALSE
    /\ verify = NoVerify
    /\ nm = NoName
    /\ vs = NoVis

NextVerify == RunVerifier

SpecVerify == InitVerify /\ [][NextVerify]_vars

-----------------------------------------------------------------------------
(* The sample name of one file: lines 25-26 and 151 *)

InitName ==
    /\ inputDir = [exists |-> FALSE, files |-> {}]
    /\ targetDir = [exists |-> FALSE, files |-> {}]
    /\ splitFiles = NoSplits
    /\ last = NoRun
    /\ nRuns = 0
    /\ budget = 1
    /\ repeated = FALSE
    /\ verify = NoVerify
    /\ nm \in {[NoName EXCEPT !.rel = p] : p \in NamePaths}
    /\ vs = NoVis

\* build_stem_to_relpath_map's key for the file
TakeStem ==
    /\ nm.pc = "idle"
    /\ nm' = [nm EXCEPT !.pc = "stem", !.stem = WithoutSuffix(nm.rel)]
    /\ UNCHANGED <<inputDir, targetDir, splitFiles, last, nRuns, budget, repeated, verify, vs>>

\* main()'s sample_name for the stem
TakeSampleName ==
    /\ nm.pc = "stem"
    /\ nm' = [nm EXCEPT !.pc = "done", !.ident = extract_sample_name(nm.stem)]
    /\ UNCHANGED <<inputDir, targetDir, splitFiles, last, nRuns, budget, repeated, verify, vs>>

NextName == TakeStem \/ TakeSampleName

SpecName == InitName /\ [][NextName]_vars

-----------------------------------------------------------------------------
(* The visualization subset of a validation list: lines 186-190 *)

InitVis ==
    /\ inputDir = [exists |-> FALSE, files |-> {}]
    /\ targetDir = [exists |-> FALSE, files |-> {}]
    /\ splitFiles = NoSplits
    /\ last = NoRun
    /\ nRuns = 0
    /\ budget = 1
    /\ repeated = FALSE
    /\ verify = NoVerify
    /\ nm = NoName
    /\ vs \in {[NoVis EXCEPT !.val_pairs = [i \in 1..n |-> i], !.rng = r] :
                  n \in 0..(VisMax + VisSlack), r \in 0..255}

\* the draw of vis_pairs from val_pairs with the generator as the shuffle left it
DrawVis ==
    /\ vs.pc = "idle"
    /\ vs' = [vs EXCEPT !.pc = "done", !.vis_pairs = VisPairs(vs.val_pairs, vs.rng)]
    /\ UNCHANGED <<inputDir, targetDir, splitFiles, last, nRuns, budget, repeated, verify, nm>>

NextVis == DrawVis

SpecVis == InitVis /\ [][NextVis]_vars

-----------------------------------------------------------------------------
(* Vocabulary of the properties *)

Range(q) == {q[i] : i \in 1..Len(q)}

NoRepeat(q) == \A i, j \in 1..Len(q) : i # j => q[i] # q[j]

\* a pair record's stem: its input path relative to the input directory, minus extension
PairStem(pair) ==
    WithoutSuffix(SubSeq(pair[1], Len(input_subdir) + 2, Len(pair[1])))

PairIdentity(pair) == extract_sample_name(PairStem(pair))

IdentitiesOf(pairs) == {PairIdentity(p) : p \in Range(pairs)}

\* the stems common to the two trees, and the sample identities they yield
MatchedStems ==
    {WithoutSuffix(f) : f \in inputDir.files} \cap {WithoutSuffix(f) : f \in targetDir.files}

MatchedIdentities == {extract_sample_name(s) : s \in MatchedStems}

Succeeded == last.status = 0

\* a step that is a run of the splitter
IsRun == nRuns' = nRuns + 1

-----------------------------------------------------------------------------
(* C1: after a successful run, no sample identity has pair records in two of
   the train, val and test lists *)
C1_SplitsShareNoIdentity ==
    Succeeded =>
        /\ IdentitiesOf(last.train_pairs) \cap IdentitiesOf(last.val_pairs) = {}
        /\ IdentitiesOf(last.train_pairs) \cap IdentitiesOf(last.test_pairs) = {}
        /\ IdentitiesOf(last.val_pairs) \cap IdentitiesOf(last.test_pairs) = {}

\* three identities, one per split
C1_Witness ==
    /\ Succeeded
    /\ Cardinality(MatchedIdentities) = 3
    /\ last.train_pairs # <<>> /\ last.val_pairs # <<>> /\ last.test_pairs # <<>>

(* C2: after a successful run, the identities of train, val and test together
   are the identities of the matched stems, and every matched stem has exactly
   one pair record, which is in the list of the split its identity went to *)
C2_NothingDropped ==
    Succeeded =>
        /\ Range(last.train_sample_names) \cup Range(last.val_sample_names)
              \cup Range(last.test_sample_names) = MatchedIdentities
        /\ \A s \in MatchedStems :
             \E split \in { <<last.train_sample_names, last.train_pairs>>,
                            <<last.val_sample_names, last.val_pairs>>,
                            <<last.test_sample_names, last.test_pairs>> } :
                /\ extract_sample_name(s) \in Range(split[1])
                /\ Cardinality({i \in 1..Len(split[2]) : PairStem(split[2][i]) = s}) = 1
        /\ Len(last.train_pairs) + Len(last.val_pairs) + Len(last.test_pairs)
              = Cardinality(MatchedStems)

\* two variants of one identity next to another identity, in different splits
C2_Witness ==
    /\ Succeeded
    /\ Cardinality(MatchedStems) = 3
    /\ Cardinality(MatchedIdentities) = 2
    /\ Len(last.val_pairs) = 2
    /\ Len(last.train_pairs) = 1

\* c = floor(n * ratio), stated by its bounds
IsFloorOfRatio(c, n, ratio) ==
    c * ratio[2] <= n * ratio[1] /\ n * ratio[1] < (c + 1) * ratio[2]

(* C3: with n identities, test is the first floor(n*t) names of the shuffled
   sequence, val the next floor(n*v), train the rest; the counts are counts of
   identities *)
C3_SliceOrderAndCounts ==
    Succeeded =>
        LET n == Cardinality(MatchedIdentities)
            nt == Len(last.test_sample_names)
            nv == Len(last.val_sample_names)
        IN  /\ Len(last.sample_names) = n
            /\ Range(last.sample_names) = MatchedIdentities
            /\ IsFloorOfRatio(nt, n, last.t)
            /\ IsFloorOfRatio(nv, n, last.v)
            /\ last.test_sample_names \o last.val_sample_names
                  \o last.train_sample_names = last.sample_names
            /\ Len(last.train_sample_names) = n - nt - nv
            /\ IdentitiesOf(last.test_pairs) = Range(last.test_sample_names)
            /\ IdentitiesOf(last.val_pairs) = Range(last.val_sample_names)
            /\ IdentitiesOf(last.train_pairs) = Range(last.train_sample_names)

\* three identities: test, val and train get one each, in that order
C3_Witness ==
    /\ Succeeded
    /\ Len(last.test_sample_names) = 1
    /\ Len(last.val_sample_names) = 1
    /\ Len(last.train_sample_names) = 1
    /\ last.sample_names # SortedStrs(MatchedIdentities)

(* C4: a successful run that follows a successful run on the same tree with
   the same seed and ratios computes the same four lists and leaves the same
   files, whatever the orders of the two walks of either run *)
C4_RunsAreReproducible ==
    [][(/\ IsRun
        /\ last.status = 0 /\ last'.status = 0
        /\ <<last'.seed, last'.v, last'.t>> = <<last.seed, last.v, last.t>>)
          => (last' = last /\ splitFiles' = splitFiles)]_vars

\* a repeated run on a tree where two input files share a stem and the walk
\* has more than one order, with a visualization list drawn
C4_Witness ==
    /\ repeated
    /\ Cardinality(Listings) = 1
    /\ Cardinality(Walks(inputDir.files)) > 1
    /\ \E f, g \in inputDir.files :
          f # g /\ WithoutSuffix(f) = WithoutSuffix(g) /\ WithoutSuffix(f) \in MatchedStems
    /\ last.vis_pairs # <<>>
    /\ last.train_pairs # <<>>

(* C5: the visualization list has min(20, |val_pairs|) elements, all of them
   pair records of the validation list, none of them twice *)
C5_VisIsBoundedSubsetOfVal ==
    vs.pc = "done" =>
        /\ Len(vs.val_pairs) >= 20 => Len(vs.vis_pairs) = 20
        /\ Len(vs.val_pairs) < 20 => Len(vs.vis_pairs) = Len(vs.val_pairs)
        /\ Range(vs.vis_pairs) \subseteq Range(vs.val_pairs)
        /\ NoRepeat(vs.vis_pairs)

\* more than 20 validation pairs: 20 are drawn, and not the first 20 in order
C5_Witness ==
    /\ vs.pc = "done"
    /\ Len(vs.val_pairs) > 20
    /\ Len(vs.vis_pairs) = 20
    /\ vs.vis_pairs # SubSeq(vs.val_pairs, 1, 20)

(* C6: a run ends with status 0 or 1; it ends with 1 when a directory is
   missing, a ratio is negative, the ratios sum to 1 or more, or the trees have
   no stem in common; and a run that ends with 1 leaves every split file as it
   was *)
C6_ErrorsWriteNothing ==
    [][IsRun =>
        /\ last'.status \in {0, 1}
        /\ (last'.status = 0) <=>
              (/\ inputDir.exists /\ targetDir.exists
               /\ last'.v[1] >= 0 /\ last'.t[1] >= 0
               /\ last'.v[1] * last'.t[2] + last'.t[1] * last'.v[2]
                     < last'.v[2] * last'.t[2]
               /\ MatchedStems # {}
               /\ last'.error = "")
        /\ (last'.status # 0) => (splitFiles' = splitFiles /\ last'.error # "")]_vars

\* both trees have files, none matches, and the files of the output directory
\* are the old ones
C6_Witness ==
    /\ last.status = 1
    /\ last.error = "No matching pairs found"
    /\ inputDir.files # {} /\ targetDir.files # {}
    /\ splitFiles = OldSplits

\* the sample identities a split file holds: those of the first field of its
\* non-blank lines; none for a missing file
FileIdentities(f) ==
    IF ~splitFiles[f].exists THEN {}
    ELSE {verifier_extract_sample_name(FirstField(Strip(l))) :
            l \in {m \in Range(splitFiles[f].lines) : Strip(m) # <<>>}}

SharedIdentities(f, g) == FileIdentities(f) \cap FileIdentities(g)

(* C7: when a sample identity occurs in more than one of train.txt, val.txt and
   test.txt, the verifier reports every shared identity and exits non-zero *)
C7_VerifierFlagsOverlap ==
    verify.status # NotRun =>
        /\ verify.train_val_overlap = SharedIdentities("train", "val")
        /\ verify.train_test_overlap = SharedIdentities("train", "test")
        /\ verify.val_test_overlap = SharedIdentities("val", "test")
        /\ (\/ SharedIdentities("train", "val") # {}
            \/ SharedIdentities("train", "test") # {}
            \/ SharedIdentities("val", "test") # {}) => verify.status # 0

\* no train.txt; val.txt and test.txt share an identity through different lines
C7_Witness ==
    /\ verify.status = 1
    /\ ~splitFiles["train"].exists
    /\ verify.val_test_overlap # {}
    /\ Range(splitFiles["val"].lines) \cap Range(splitFiles["test"].lines) = {}

\* y is x with the part from its last underscore on removed, and x itself
\* when x has no underscore
CutAtLastUnderscore(x, y) ==
    IF "_" \notin Range(x) THEN y = x
    ELSE \E k \in 1..Len(x) :
            /\ x[k] = "_"
            /\ \A j \in (k + 1)..Len(x) : x[j] # "_"
            /\ y = SubSeq(x, 1, k - 1)

\* y is the last component of the path x
LastComponent(x, y) ==
    \E d \in 0..Len(x) :
        /\ d = 0 \/ x[d] = "/"
        /\ \A j \in (d + 1)..Len(x) : x[j] # "/"
        /\ y = SubSeq(x, d + 1, Len(x))

Str3192_010 == <<"3", "1", "9", "2", "_", "0", "1", "0">>
Str3192_005 == <<"3", "1", "9", "2", "_", "0", "0", "5">>
Str4201 == <<"4", "2", "0", "1">>
Str3192 == <<"3", "1", "9", "2">>

ExamplesHold ==
    /\ nm.stem = Str3192_010 => nm.ident = Str3192
    /\ nm.stem = Str3192_005 => nm.ident = Str3192
    /\ nm.stem = Str4201 => nm.ident = Str4201

(* C8 as stated: the sample identity is the stem with the part from its last
   underscore on removed, and the whole stem when it has no underscore *)
C8_IdentityCutsWholeStem ==
    nm.pc = "done" => (CutAtLastUnderscore(nm.stem, nm.ident) /\ ExamplesHold)

(* C8 amended: the sample identity is the last path component of the stem with
   the part from that component's last underscore on removed, and the whole
   component when it has no underscore; the stem is the relative path less
   the extension of its last component *)
C8_IdentityCutsLastComponent ==
    nm.pc = "done" =>
        /\ \E n \in 0..Len(nm.rel) :
              /\ nm.stem = SubSeq(nm.rel, 1, n)
              /\ \A j \in (n + 2)..Len(nm.rel) : nm.rel[j] \notin {".", "/"}
              /\ n < Len(nm.rel) => nm.rel[n + 1] = "."
        /\ \E c \in {Basename(nm.stem)} :
              LastComponent(nm.stem, c) /\ CutAtLastUnderscore(c, nm.ident)
        /\ ExamplesHold

\* a file in a subdirectory whose name and whose directory both have an underscore
C8_Witness ==
    /\ nm.pc = "done"
    /\ LET slash == RFind(nm.stem, "/")
       IN  /\ slash > 0
           /\ "_" \in Range(SubSeq(nm.stem, 1, slash))
           /\ "_" \in Range(SubSeq(nm.stem, slash + 1, Len(nm.stem)))
           /\ nm.ident # <<>>

(* C9 as stated: after a successful run, train.txt and val.txt hold the run's
   lists, and test.txt (vis.txt) exists only if the run's test (visualization)
   list is non-empty *)
C9_DirectoryReflectsLastRun ==
    Succeeded =>
        /\ splitFiles["train"] = write_split_file(last.train_pairs)
        /\ splitFiles["val"] = write_split_file(last.val_pairs)
        /\ splitFiles["test"].exists => last.test_pairs # <<>>
        /\ splitFiles["vis"].exists => last.vis_pairs # <<>>

(* C9 amended: a successful run writes its train and val lists to train.txt and
   val.txt, writes test.txt (vis.txt) when its test (visualization) list is
   non-empty, and otherwise leaves test.txt (vis.txt) as it found it; a run
   with test ratio 0 that finds matched pairs succeeds *)
C9_RunWritesNonEmptyListsOnly ==
    [][(IsRun /\ last'.status = 0) =>
        /\ splitFiles'["train"] = write_split_file(last'.train_pairs)
        /\ splitFiles'["val"] = write_split_file(last'.val_pairs)
        /\ splitFiles'["test"] = IF last'.test_pairs # <<>>
                                 THEN write_split_file(last'.test_pairs)
                                 ELSE splitFiles["test"]
        /\ splitFiles'["vis"] = IF last'.vis_pairs # <<>>
                                THEN write_split_file(last'.vis_pairs)
                                ELSE splitFiles["vis"]
        /\ last'.t[1] = 0 => last'.test_pairs = <<>>]_vars

\* a run with test ratio 0 after a run that wrote test.txt and vis.txt
C9_Witness ==
    /\ nRuns = 2
    /\ Succeeded
    /\ last.t[1] = 0 /\ last.v[1] = 0
    /\ last.test_pairs = <<>> /\ last.vis_pairs = <<>>
    /\ splitFiles["test"].exists /\ splitFiles["vis"].exists
    /\ splitFiles["train"] = write_split_file(last.train_pairs)

(* C10: after a successful run into an empty output directory, the verifier
   finds in each split file the sample identities the splitter put there, finds
   no overlap and exits with status 0 *)
C10_VerifierAgreesWithSplitter ==
    (/\ Succeeded
     /\ splitFiles = WriteSplits(last, NoSplits)
     /\ verify.status # NotRun) =>
        /\ verify.train_names = Range(last.train_sample_names)
        /\ verify.val_names = Range(last.val_sample_names)
        /\ verify.test_names = Range(last.test_sample_names)
        /\ verify.train_val_overlap = {}
        /\ verify.train_test_overlap = {}
        /\ verify.val_test_overlap = {}
        /\ last.train_pairs # <<>>
        /\ verify.status = 0

=============================================================================
